---- MODULE Spec2Model ----
(***************************************************************************)
(* notectl: a command-line note / TODO manager on an embedded SQL store.   *)
(*                                                                         *)
(* The store is four tables (notes, tags, todos, templates) and the FTS5   *)
(* table notes_fts.  Every conn.execute of the source is one autocommitted  *)
(* statement: no function of the source opens a transaction.  A handler is *)
(* therefore a sequence of statements; pc is the position of the running   *)
(* invocation between two statements and cur holds its arguments and       *)
(* locals.  Text is a sequence of one-character strings, so that trimming, *)
(* tokenizing and case folding are computed, not assumed.                  *)
(***************************************************************************)
EXTENDS Integers, Sequences, FiniteSets, TLC

VARIABLES
    notes,      \* table notes: id -> [content, created_at, updated_at, category, is_daily]
    fts,        \* table notes_fts: rowid -> content
    tags,       \* table tags: rows [note_id, tag] in rowid order (duplicates allowed)
    todos,      \* table todos: id -> [task, completed, priority, due_date, created_at]
    templates,  \* table templates: the rows [name, content]
    now,        \* Local::now().timestamp()
    pc,         \* position of the running invocation ("idle": none is running)
    cur,        \* the running (or last) invocation: command, function, arguments, locals
    ret,        \* what the last invocation returned
    schema,     \* sqlite_master: the names of the tables and indexes of the store
    other       \* a second invocation on the same store, while it is not running

vars == <<notes, fts, tags, todos, templates, now, pc, cur, ret, schema, other>>
db == <<notes, fts, tags, todos, templates>>

----------------------------------------------------------------------------
(* Bounds of the model *)

\* largest rowid the notes and todos tables hand out
MaxId == 2
\* largest number of rows of the tags table
MaxTagRows == 2
\* last instant of the clock
MaxTime == 3
\* seconds of one local calendar day
DayLen == 2

----------------------------------------------------------------------------
(* Text *)

None == <<>>
Some(x) == <<x>>

IsSpace(c) == c = " "

RECURSIVE trim_start(_)
trim_start(s) ==
    IF s = <<>> THEN s
    ELSE IF IsSpace(Head(s)) THEN trim_start(Tail(s)) ELSE s

RECURSIVE trim_end(_)
trim_end(s) ==
    IF s = <<>> THEN s
    ELSE IF IsSpace(s[Len(s)]) THEN trim_end(SubSeq(s, 1, Len(s) - 1)) ELSE s

\* str::trim
trim(s) == trim_end(trim_start(s))

\* str::is_empty
is_empty(s) == Len(s) = 0

----------------------------------------------------------------------------
(* Time *)

\* date_naive(): the local calendar day of an instant
date_naive(t) == t \div DayLen
\* and_hms_opt(0, 0, 0): the first instant of a day
start_of_day(d) == d * DayLen
\* and_hms_opt(23, 59, 59): the last instant of a day
end_of_day(d) == d * DayLen + (DayLen - 1)

----------------------------------------------------------------------------
(* The invocation record and the returned value *)

NoCall ==
    [cmd |-> "", op |-> "", id |-> 0, content |-> <<>>, tags |-> <<>>,
     category |-> None, is_daily |-> FALSE, i |-> 0, name |-> <<>>,
     name2 |-> <<>>, limit |-> 0, tag |-> None, flag |-> FALSE,
     terms |-> <<>>, date |-> 0, due |-> None]

\* status: "none" (nothing returned yet), "ok" (Ok(..)), "err" (Err(..) of a
\* statement), "exit" (process::exit(1) after a message), "interrupted" (the
\* process died between two statements).  b, n, rows: the value by its type.
Ret(status, b, n, rows) == [status |-> status, b |-> b, n |-> n, rows |-> rows]
NoRet == Ret("none", FALSE, 0, <<>>)
OkUnit == Ret("ok", FALSE, 0, <<>>)
OkBool(b) == Ret("ok", b, 0, <<>>)
OkInt(n) == Ret("ok", FALSE, n, <<>>)
OkRows(rows) == Ret("ok", FALSE, 0, rows)
Err == Ret("err", FALSE, 0, <<>>)
Exit == Ret("exit", FALSE, 0, <<>>)

----------------------------------------------------------------------------
(* SQL helpers *)

Max(S) == CHOOSE x \in S : \A y \in S : y <= x

\* rowid of INSERT into an INTEGER PRIMARY KEY table: largest rowid + 1
last_insert_rowid(table) ==
    IF DOMAIN table = {} THEN 1 ELSE Max(DOMAIN table) + 1

Restrict(f, S) == [x \in S |-> f[x]]

\* ORDER BY created_at DESC of the rows H: SQL leaves the order of rows with
\* equal created_at open, so every such order is a possible result
OrderByCreatedDesc(H, created) ==
    {s \in [1..Cardinality(H) -> H] :
        /\ \A i, j \in 1..Cardinality(H) : i # j => s[i] # s[j]
        /\ \A i, j \in 1..Cardinality(H) : i < j => created[s[i]] >= created[s[j]]}

\* LIMIT n
Limit(s, n) == SubSeq(s, 1, IF n < Len(s) THEN n ELSE Len(s))

----------------------------------------------------------------------------
(* db.rs *)

\* the statements of initialize's execute_batch, in order: each one is
\* CREATE TABLE / CREATE INDEX ... IF NOT EXISTS
Batch == <<"notes", "tags", "idx_tags_note_id", "idx_tags_tag", "todos", "templates">>
\* every structure initialize is to leave in sqlite_master
Structures == {Batch[k] : k \in DOMAIN Batch} \cup {"notes_fts"}

\* initialize is called
initialize ==
    /\ pc = "idle"
    /\ cur' = [NoCall EXCEPT !.op = "initialize", !.i = 1]
    /\ pc' = "init_batch"
    /\ ret' = NoRet
    /\ UNCHANGED <<notes, fts, tags, todos, templates, now, schema, other>>

\* one statement of the batch: creates the structure unless it exists
initialize_batch ==
    /\ pc = "init_batch"
    /\ schema' = schema \cup {Batch[cur.i]}
    /\ cur' = [cur EXCEPT !.i = cur.i + 1]
    /\ pc' = IF cur.i = Len(Batch) THEN "init_fts_exists" ELSE "init_batch"
    /\ UNCHANGED <<notes, fts, tags, todos, templates, now, ret, other>>

\* SELECT COUNT(*) > 0 FROM sqlite_master WHERE type='table' AND name='notes_fts'
initialize_fts_exists ==
    /\ pc = "init_fts_exists"
    /\ cur' = [cur EXCEPT !.flag = "notes_fts" \in schema]
    /\ pc' = "init_fts_create"
    /\ UNCHANGED <<notes, fts, tags, todos, templates, now, ret, schema, other>>

\* an initialize that creates the full-text table without looking
initialize_fts_create_unchecked ==
    /\ pc = "init_fts_create"
    /\ IF "notes_fts" \in schema
       THEN ret' = Err /\ UNCHANGED schema
       ELSE ret' = OkUnit /\ schema' = schema \cup {"notes_fts"}
    /\ pc' = "idle"
    /\ UNCHANGED <<notes, fts, tags, todos, templates, now, cur, other>>

\* if !fts_exists { CREATE VIRTUAL TABLE notes_fts ... }: the statement
\* fails when the table exists by now
initialize_fts_create ==
    /\ pc = "init_fts_create"
    /\ IF cur.flag THEN ret' = OkUnit /\ UNCHANGED schema
       ELSE IF "notes_fts" \in schema
            THEN ret' = Err /\ UNCHANGED schema
            ELSE ret' = OkUnit /\ schema' = schema \cup {"notes_fts"}
    /\ pc' = "idle"
    /\ UNCHANGED <<notes, fts, tags, todos, templates, now, cur, other>>

----------------------------------------------------------------------------
(* note.rs *)

\* the Note struct a read returns; timestamp_to_local keeps the instant
Note(id, row, tagl) ==
    [id |-> id, content |-> row.content, created_at |-> row.created_at,
     updated_at |-> row.updated_at, category |-> row.category,
     is_daily |-> row.is_daily, tags |-> tagl]

\* SELECT tag FROM tags WHERE note_id = ?1
get_tags_for_note(note_id) ==
    LET rows == SelectSeq(tags, LAMBDA r : r.note_id = note_id)
    IN  [k \in 1..Len(rows) |-> rows[k].tag]

\* a store opened without PRAGMA foreign_keys=ON checks nothing
fk_off(note_id) == TRUE

\* INSERT INTO tags (note_id, tag): the foreign key (foreign_keys=ON) refuses
\* a note_id that is no note
fk_ok(note_id) == note_id \in DOMAIN notes

\* add, first statement: INSERT INTO notes, then last_insert_rowid()
note_add_call(cmd, content, tagl, category, is_daily) ==
    LET note_id == last_insert_rowid(notes) IN
    /\ note_id <= MaxId
    /\ Len(tags) + Len(tagl) <= MaxTagRows
    /\ notes' = notes @@ (note_id :>
            [content |-> content, created_at |-> now, updated_at |-> now,
             category |-> category, is_daily |-> is_daily])
    /\ cur' = [NoCall EXCEPT !.cmd = cmd, !.op = "note_add", !.id = note_id,
                             !.content = content, !.tags = tagl,
                             !.category = category, !.is_daily = is_daily,
                             !.i = 1]
    /\ pc' = "add_fts"
    /\ ret' = NoRet
    /\ UNCHANGED <<fts, tags, todos, templates, now, schema, other>>

note_add(content, tagl, category, is_daily) ==
    /\ pc = "idle"
    /\ note_add_call("", content, tagl, category, is_daily)

\* add, second statement: INSERT INTO notes_fts (rowid, content)
note_add_fts ==
    /\ pc = "add_fts"
    /\ IF cur.id \in DOMAIN fts
       THEN /\ ret' = Err
            /\ pc' = "idle"
            /\ UNCHANGED fts
       ELSE /\ fts' = fts @@ (cur.id :> cur.content)
            /\ IF cur.tags = <<>>
               THEN pc' = "idle" /\ ret' = OkInt(cur.id)
               ELSE pc' = "add_tags" /\ ret' = NoRet
    /\ UNCHANGED <<notes, tags, todos, templates, now, cur, schema, other>>

\* an add that stores each tag as typed
note_add_tags_untrimmed ==
    /\ pc = "add_tags"
    /\ tags' = Append(tags, [note_id |-> cur.id, tag |-> cur.tags[cur.i]])
    /\ IF cur.i = Len(cur.tags)
       THEN pc' = "idle" /\ ret' = OkInt(cur.id) /\ UNCHANGED cur
       ELSE pc' = "add_tags" /\ ret' = NoRet /\ cur' = [cur EXCEPT !.i = cur.i + 1]
    /\ UNCHANGED <<notes, fts, todos, templates, now, schema, other>>

\* add, the loop: INSERT INTO tags (note_id, tag) VALUES (note_id, tag.trim())
note_add_tags ==
    /\ pc = "add_tags"
    /\ IF ~fk_ok(cur.id)
       THEN /\ ret' = Err
            /\ pc' = "idle"
            /\ UNCHANGED <<tags, cur, schema, other>>
       ELSE /\ tags' = Append(tags, [note_id |-> cur.id, tag |-> trim(cur.tags[cur.i])])
            /\ IF cur.i = Len(cur.tags)
               THEN pc' = "idle" /\ ret' = OkInt(cur.id) /\ UNCHANGED cur
               ELSE pc' = "add_tags" /\ ret' = NoRet /\ cur' = [cur EXCEPT !.i = cur.i + 1]
    /\ UNCHANGED <<notes, fts, todos, templates, now, schema, other>>

\* get_by_id
get_by_id(id) ==
    IF id \in DOMAIN notes
    THEN Some(Note(id, notes[id], get_tags_for_note(id)))
    ELSE None

note_get_by_id(id) ==
    /\ pc = "idle"
    /\ cur' = [NoCall EXCEPT !.op = "note_get_by_id", !.id = id]
    /\ ret' = OkRows(get_by_id(id))
    /\ UNCHANGED <<notes, fts, tags, todos, templates, now, pc, schema, other>>

\* a WHERE clause that joins the conditions with OR
list_where_any(n, tag, category, today_only) ==
    LET start_of_today == start_of_day(date_naive(now))
        cond_today == notes[n].created_at >= start_of_today
        cond_category == notes[n].category = category
        cond_tag == n \in {tags[k].note_id : k \in {j \in DOMAIN tags : tags[j].tag = tag[1]}}
    IN  \/ ~today_only /\ category = None /\ tag = None
        \/ today_only /\ cond_today
        \/ category # None /\ cond_category
        \/ tag # None /\ cond_tag

\* list: the WHERE clause is the conjunction of the conditions pushed for the
\* filters that are given
list_where(n, tag, category, today_only) ==
    LET start_of_today == start_of_day(date_naive(now))
        cond_today == notes[n].created_at >= start_of_today
        cond_category == notes[n].category = category
        cond_tag == n \in {tags[k].note_id : k \in {j \in DOMAIN tags : tags[j].tag = tag[1]}}
    IN  /\ today_only => cond_today
        /\ category # None => cond_category
        /\ tag # None => cond_tag

\* a list that finds the tag by FROM notes n JOIN tags t: a result row
\* <<note id, tag row>> for every tag row that carries the tag
list_from_join(tag, category, today_only) ==
    IF tag = None
    THEN {<<n, 0>> : n \in {m \in DOMAIN notes :
                                list_where(m, tag, category, today_only)}}
    ELSE {<<tags[k].note_id, k>> :
             k \in {j \in DOMAIN tags :
                       /\ tags[j].tag = tag[1]
                       /\ tags[j].note_id \in DOMAIN notes
                       /\ list_where(tags[j].note_id, tag, category, today_only)}}

\* list: FROM notes n WHERE ..., the tag looked up by IN (SELECT ...): the
\* result rows <<note id, 0>>, one for every note the WHERE clause accepts
list_from(tag, category, today_only) ==
    {<<n, 0>> : n \in {m \in DOMAIN notes : list_where(m, tag, category, today_only)}}

\* list: the possible results, each row with the tags of the second lookup
list(limit, tag, category, today_only) ==
    LET H == list_from(tag, category, today_only)
    IN  {[k \in DOMAIN Limit(s, limit) |->
             Note(s[k][1], notes[s[k][1]], get_tags_for_note(s[k][1]))] :
         s \in OrderByCreatedDesc(H, [h \in H |-> notes[h[1]].created_at])}

note_list(limit, tag, category, today_only) ==
    /\ pc = "idle"
    /\ cur' = [NoCall EXCEPT !.op = "note_list", !.limit = limit, !.tag = tag,
                             !.category = category, !.flag = today_only]
    /\ \E r \in list(limit, tag, category, today_only) : ret' = OkRows(r)
    /\ UNCHANGED <<notes, fts, tags, todos, templates, now, pc, schema, other>>

\* a delete that leaves the index alone
note_delete_keeps_index(id) ==
    /\ pc = "idle"
    /\ cur' = [NoCall EXCEPT !.op = "note_delete", !.id = id]
    /\ pc' = "del_tags"
    /\ ret' = NoRet
    /\ UNCHANGED <<notes, fts, tags, todos, templates, now, schema, other>>

\* delete, first statement: DELETE FROM notes_fts WHERE rowid = ?1
note_delete(id) ==
    /\ pc = "idle"
    /\ fts' = Restrict(fts, DOMAIN fts \ {id})
    /\ cur' = [NoCall EXCEPT !.op = "note_delete", !.id = id]
    /\ pc' = "del_tags"
    /\ ret' = NoRet
    /\ UNCHANGED <<notes, tags, todos, templates, now, schema, other>>

\* delete, second statement: DELETE FROM tags WHERE note_id = ?1
note_delete_tags ==
    /\ pc = "del_tags"
    /\ tags' = SelectSeq(tags, LAMBDA r : r.note_id # cur.id)
    /\ pc' = "del_note"
    /\ UNCHANGED <<notes, fts, todos, templates, now, cur, ret, schema, other>>

\* delete, third statement: DELETE FROM notes WHERE id = ?1 (ON DELETE
\* CASCADE removes the tag rows that still refer to the note)
note_delete_note ==
    /\ pc = "del_note"
    /\ notes' = Restrict(notes, DOMAIN notes \ {cur.id})
    /\ tags' = SelectSeq(tags, LAMBDA r : r.note_id # cur.id)
    /\ ret' = OkBool(cur.id \in DOMAIN notes)
    /\ pc' = "idle"
    /\ UNCHANGED <<fts, todos, templates, now, cur, schema, other>>

\* an update that goes on to the index whether or not a row was updated
note_update_call_unguarded(cmd, id, content) ==
    /\ cur' = [NoCall EXCEPT !.cmd = cmd, !.op = "note_update", !.id = id,
                             !.content = content]
    /\ notes' = [n \in DOMAIN notes |->
                    IF n = id THEN [notes[n] EXCEPT !.content = content,
                                                    !.updated_at = now]
                    ELSE notes[n]]
    /\ pc' = "upd_fts_del"
    /\ ret' = NoRet
    /\ UNCHANGED <<fts, tags, todos, templates, now, schema, other>>

\* an update that stamps both timestamps
note_update_call_restamping(cmd, id, content) ==
    /\ cur' = [NoCall EXCEPT !.cmd = cmd, !.op = "note_update", !.id = id,
                             !.content = content]
    /\ IF id \in DOMAIN notes
       THEN /\ notes' = [notes EXCEPT ![id].content = content,
                                      ![id].updated_at = now,
                                      ![id].created_at = now]
            /\ pc' = "upd_fts_del"
            /\ ret' = NoRet
       ELSE /\ UNCHANGED notes
            /\ pc' = "idle"
            /\ ret' = OkBool(FALSE)
    /\ UNCHANGED <<fts, tags, todos, templates, now, schema, other>>

\* update, first statement: UPDATE notes SET content, updated_at WHERE id
note_update_call(cmd, id, content) ==
    /\ cur' = [NoCall EXCEPT !.cmd = cmd, !.op = "note_update", !.id = id,
                             !.content = content]
    /\ IF id \in DOMAIN notes
       THEN /\ notes' = [notes EXCEPT ![id].content = content,
                                      ![id].updated_at = now]
            /\ pc' = "upd_fts_del"
            /\ ret' = NoRet
       ELSE /\ UNCHANGED notes
            /\ pc' = "idle"
            /\ ret' = OkBool(FALSE)
    /\ UNCHANGED <<fts, tags, todos, templates, now, schema, other>>

note_update(id, content) ==
    /\ pc = "idle"
    /\ note_update_call("", id, content)

\* update, second statement: DELETE FROM notes_fts WHERE rowid = ?1
note_update_fts_delete ==
    /\ pc = "upd_fts_del"
    /\ fts' = Restrict(fts, DOMAIN fts \ {cur.id})
    /\ pc' = "upd_fts_ins"
    /\ UNCHANGED <<notes, tags, todos, templates, now, cur, ret, schema, other>>

\* an update that forgets to put the new content back into the index
note_update_fts_forgotten ==
    /\ pc = "upd_fts_ins"
    /\ ret' = OkBool(TRUE)
    /\ pc' = "idle"
    /\ UNCHANGED <<notes, fts, tags, todos, templates, now, cur, schema, other>>

\* update, third statement: INSERT INTO notes_fts (rowid, content)
note_update_fts_insert ==
    /\ pc = "upd_fts_ins"
    /\ IF cur.id \in DOMAIN fts
       THEN ret' = Err /\ UNCHANGED fts
       ELSE fts' = fts @@ (cur.id :> cur.content) /\ ret' = OkBool(TRUE)
    /\ pc' = "idle"
    /\ UNCHANGED <<notes, tags, todos, templates, now, cur, schema, other>>

----------------------------------------------------------------------------
(* search.rs *)

\* the unicode61 tokenizer of FTS5 folds case ...
fold(c) == IF c = "A" THEN "a" ELSE IF c = "B" THEN "b" ELSE c
\* ... and splits at every character that is no letter or digit
is_separator(c) == c \in {" ", "-"}

RECURSIVE tokenize(_, _)
tokenize(s, tok) ==
    LET done == IF tok = <<>> THEN <<>> ELSE <<tok>> IN
    IF s = <<>> THEN done
    ELSE IF is_separator(Head(s)) THEN done \o tokenize(Tail(s), <<>>)
    ELSE tokenize(Tail(s), Append(tok, fold(Head(s))))

\* a contains that compares without regard to case
contains_folded(s, sub) ==
    \E k \in 1..(Len(s) - Len(sub) + 1) :
        [j \in 1..Len(sub) |-> fold(s[k + j - 1])] = [j \in 1..Len(sub) |-> fold(sub[j])]

\* str::contains, and the same on token sequences
contains(s, sub) ==
    \E k \in 1..(Len(s) - Len(sub) + 1) : SubSeq(s, k, k + Len(sub) - 1) = sub

\* a quoted term is a phrase: its tokens, adjacent and in order; a phrase
\* without tokens matches no row
phrase_match(content, term) ==
    LET phrase == tokenize(term, <<>>)
    IN  phrase # <<>> /\ contains(tokenize(content, <<>>), phrase)

\* a query that joins the phrases with OR
fts_match_any(content, terms) ==
    \E k \in DOMAIN terms : phrase_match(content, terms[k])

\* notes_fts MATCH '"t1" AND "t2" ...'
fts_match(content, terms) ==
    \A k \in DOMAIN terms : phrase_match(content, terms[k])

\* search_by_tag: notes JOIN tags, one row per tag row that carries the tag
search_by_tag(tag) ==
    LET H == {k \in DOMAIN tags : tags[k].tag = tag /\ tags[k].note_id \in DOMAIN notes}
    IN  {[k \in DOMAIN s |->
             Note(tags[s[k]].note_id, notes[tags[s[k]].note_id],
                  get_tags_for_note(tags[s[k]].note_id))] :
         s \in OrderByCreatedDesc(H, [k \in H |-> notes[tags[k].note_id].created_at])}

\* a search that takes no terms for no condition: all notes, newest first
search_no_terms_all ==
    {[k \in DOMAIN s |-> Note(s[k], notes[s[k]], get_tags_for_note(s[k]))] :
     s \in OrderByCreatedDesc(DOMAIN notes,
                              [n \in DOMAIN notes |-> notes[n].created_at])}

\* if terms.is_empty() { return Ok(Vec::new()); }
search_no_terms == {<<>>}

\* search_notes: the possible results
search(terms, tag, case_sensitive) ==
    IF tag # None THEN search_by_tag(tag[1])
    ELSE IF terms = <<>> THEN search_no_terms
    ELSE
        LET H == {n \in DOMAIN notes \cap DOMAIN fts : fts_match(fts[n], terms)}
            all_match(n) == \A k \in DOMAIN terms : contains(notes[n].content, terms[k])
            kept(s) == SelectSeq(s, LAMBDA n : ~case_sensitive \/ all_match(n))
        IN  {[k \in DOMAIN kept(s) |->
                 Note(kept(s)[k], notes[kept(s)[k]], get_tags_for_note(kept(s)[k]))] :
             s \in OrderByCreatedDesc(H, [n \in H |-> notes[n].created_at])}

search_notes(terms, tag, case_sensitive) ==
    /\ pc = "idle"
    /\ cur' = [NoCall EXCEPT !.op = "search_notes", !.terms = terms, !.tag = tag,
                             !.flag = case_sensitive]
    /\ \E r \in search(terms, tag, case_sensitive) : ret' = OkRows(r)
    /\ UNCHANGED <<notes, fts, tags, todos, templates, now, pc, schema, other>>

----------------------------------------------------------------------------
(* tags.rs *)

\* SELECT tag, COUNT(*) as cnt FROM tags GROUP BY tag: one group per distinct
\* tag string of the table T, counting its rows
group_by_tag(T) ==
    [t \in {T[k].tag : k \in DOMAIN T} |->
        Cardinality({k \in DOMAIN T : T[k].tag = t})]

\* the TagCount struct
TagCount(tag, count) == [tag |-> tag, count |-> count]

\* list_all: ... ORDER BY cnt DESC, groups of equal count in any order
list_all ==
    LET G == group_by_tag(tags)
        H == DOMAIN G
    IN  {[k \in DOMAIN s |-> TagCount(s[k], G[s[k]])] :
         s \in {q \in [1..Cardinality(H) -> H] :
                  /\ \A i, j \in 1..Cardinality(H) : i # j => q[i] # q[j]
                  /\ \A i, j \in 1..Cardinality(H) : i < j => G[q[i]] >= G[q[j]]}}

tags_list_all ==
    /\ pc = "idle"
    /\ cur' = [NoCall EXCEPT !.op = "tags_list_all"]
    /\ \E r \in list_all : ret' = OkRows(r)
    /\ UNCHANGED <<notes, fts, tags, todos, templates, now, pc, schema, other>>

\* a rename that stops at the first row it finds
tags_rename_first(old_name, new_name) ==
    LET hit == {k \in DOMAIN tags : tags[k].tag = old_name}
        first == IF hit = {} THEN 0 ELSE CHOOSE k \in hit : \A j \in hit : k <= j
    IN  /\ pc = "idle"
        /\ tags' = [k \in DOMAIN tags |->
                       IF k = first THEN [tags[k] EXCEPT !.tag = new_name] ELSE tags[k]]
        /\ cur' = [NoCall EXCEPT !.op = "tags_rename", !.name = old_name,
                                 !.name2 = new_name]
        /\ ret' = OkInt(IF hit = {} THEN 0 ELSE 1)
        /\ UNCHANGED <<notes, fts, todos, templates, now, pc, schema, other>>

\* rename: UPDATE tags SET tag = ?1 WHERE tag = ?2
tags_rename(old_name, new_name) ==
    /\ pc = "idle"
    /\ tags' = [k \in DOMAIN tags |->
                   IF tags[k].tag = old_name
                   THEN [tags[k] EXCEPT !.tag = new_name] ELSE tags[k]]
    /\ cur' = [NoCall EXCEPT !.op = "tags_rename", !.name = old_name,
                             !.name2 = new_name]
    /\ ret' = OkInt(Cardinality({k \in DOMAIN tags : tags[k].tag = old_name}))
    /\ UNCHANGED <<notes, fts, todos, templates, now, pc, schema, other>>

\* add_tag: INSERT INTO tags (note_id, tag)
tags_add_tag(note_id, tag) ==
    /\ pc = "idle"
    /\ Len(tags) < MaxTagRows
    /\ cur' = [NoCall EXCEPT !.op = "tags_add_tag", !.id = note_id, !.name = tag]
    /\ IF fk_ok(note_id)
       THEN tags' = Append(tags, [note_id |-> note_id, tag |-> tag]) /\ ret' = OkUnit
       ELSE UNCHANGED tags /\ ret' = Err
    /\ UNCHANGED <<notes, fts, todos, templates, now, pc, schema, other>>

\* remove_tag: DELETE FROM tags WHERE note_id = ?1 AND tag = ?2
tags_remove_tag(note_id, tag) ==
    /\ pc = "idle"
    /\ tags' = SelectSeq(tags, LAMBDA r : ~(r.note_id = note_id /\ r.tag = tag))
    /\ cur' = [NoCall EXCEPT !.op = "tags_remove_tag", !.id = note_id, !.name = tag]
    /\ ret' = OkInt(Cardinality({k \in DOMAIN tags :
                        tags[k].note_id = note_id /\ tags[k].tag = tag}))
    /\ UNCHANGED <<notes, fts, todos, templates, now, pc, schema, other>>

----------------------------------------------------------------------------
(* todo.rs *)

\* a date argument as typed: kind "ymd" is text of the form %Y-%m-%d naming
\* the calendar day `day`, "yesterday" is that word, "junk" is anything else
DateArg(kind, day) == [kind |-> kind, day |-> day]

\* a parser that reads any text as the first day
parse_from_str_lenient(d) == IF d.kind = "ymd" THEN Some(d.day) ELSE Some(0)

\* NaiveDate::parse_from_str(d, "%Y-%m-%d").ok()
parse_from_str(d) == IF d.kind = "ymd" THEN Some(d.day) ELSE None

\* add: INSERT INTO todos (task, priority, due_date, created_at); typed is
\* what the command was given as priority, kept for the record with the due
\* date as typed
todo_add_call(cmd, typed, task, priority, due_date) ==
    LET id == last_insert_rowid(todos)
        parsed == IF due_date = None THEN None ELSE parse_from_str(due_date[1])
        due_ts == IF parsed = None THEN None ELSE Some(end_of_day(parsed[1]))
    IN  /\ id <= MaxId
        /\ todos' = todos @@ (id :>
                [task |-> task, completed |-> FALSE, priority |-> priority,
                 due_date |-> due_ts, created_at |-> now])
        /\ cur' = [NoCall EXCEPT !.cmd = cmd, !.op = "todo_add", !.id = id,
                                 !.content = task, !.name2 = typed,
                                 !.due = due_date]
        /\ ret' = OkInt(id)
        /\ UNCHANGED <<notes, fts, tags, templates, now, pc, schema, other>>

todo_add(task, priority, due_date) ==
    /\ pc = "idle"
    /\ todo_add_call("", <<>>, task, priority, due_date)

\* CASE priority WHEN 'high' THEN 0 WHEN 'medium' THEN 1 WHEN 'low' THEN 2 ELSE 3
priority_rank(priority) ==
    IF priority = "high" THEN 0
    ELSE IF priority = "medium" THEN 1
    ELSE IF priority = "low" THEN 2 ELSE 3

\* the 9999999999 of COALESCE(due_date, 9999999999) on the model's time
\* scale: an instant (of the year 2286) after every instant of the clock and
\* before the end of the latest day a user can type as due date
NoDueDate == start_of_day(date_naive(MaxTime) + 2)
coalesce_due(due_date) == IF due_date = None THEN NoDueDate ELSE due_date[1]

\* ORDER BY rank, COALESCE(due_date, 9999999999) ASC of the rows H: rows equal
\* in both come in any order
OrderByRankDue(H) ==
    {s \in [1..Cardinality(H) -> H] :
        /\ \A i, j \in 1..Cardinality(H) : i # j => s[i] # s[j]
        /\ \A i, j \in 1..Cardinality(H) : i < j =>
              LET ri == priority_rank(todos[s[i]].priority)
                  rj == priority_rank(todos[s[j]].priority)
              IN  \/ ri < rj
                  \/ /\ ri = rj
                     /\ coalesce_due(todos[s[i]].due_date)
                            <= coalesce_due(todos[s[j]].due_date)}

\* the Todo struct
Todo(id, row) ==
    [id |-> id, task |-> row.task, completed |-> row.completed,
     priority |-> row.priority, due_date |-> row.due_date,
     created_at |-> row.created_at]

\* list_todos: the possible results
list_todos(pending_only) ==
    LET H == {t \in DOMAIN todos : pending_only => ~todos[t].completed}
    IN  {[k \in DOMAIN s |-> Todo(s[k], todos[s[k]])] : s \in OrderByRankDue(H)}

todo_list_todos(pending_only) ==
    /\ pc = "idle"
    /\ cur' = [NoCall EXCEPT !.op = "list_todos", !.flag = pending_only]
    /\ \E r \in list_todos(pending_only) : ret' = OkRows(r)
    /\ UNCHANGED <<notes, fts, tags, todos, templates, now, pc, schema, other>>

\* mark_done: UPDATE todos SET completed = 1 WHERE id = ?1
todo_mark_done(id) ==
    /\ pc = "idle"
    /\ todos' = [k \in DOMAIN todos |->
                    IF k = id THEN [todos[k] EXCEPT !.completed = TRUE] ELSE todos[k]]
    /\ cur' = [NoCall EXCEPT !.op = "todo_mark_done", !.id = id]
    /\ ret' = OkBool(id \in DOMAIN todos)
    /\ UNCHANGED <<notes, fts, tags, templates, now, pc, schema, other>>

\* delete: DELETE FROM todos WHERE id = ?1
todo_delete(id) ==
    /\ pc = "idle"
    /\ todos' = Restrict(todos, DOMAIN todos \ {id})
    /\ cur' = [NoCall EXCEPT !.op = "todo_delete", !.id = id]
    /\ ret' = OkBool(id \in DOMAIN todos)
    /\ UNCHANGED <<notes, fts, tags, templates, now, pc, schema, other>>

\* statistics that take every row for completed
count_stats_all_completed ==
    <<Cardinality(DOMAIN todos), Cardinality(DOMAIN todos), 0>>

\* count_stats: SELECT COUNT(*) FROM todos; SELECT COUNT(*) FROM todos WHERE
\* completed = 1; pending = total - completed
count_stats ==
    LET total == Cardinality(DOMAIN todos)
        completed == Cardinality({t \in DOMAIN todos : todos[t].completed})
        pending == total - completed
    IN  <<total, completed, pending>>

todo_count_stats ==
    /\ pc = "idle"
    /\ cur' = [NoCall EXCEPT !.op = "count_stats"]
    /\ ret' = OkRows(count_stats)
    /\ UNCHANGED <<notes, fts, tags, todos, templates, now, pc, schema, other>>

\* a count that takes a todo due at this very instant for overdue
count_overdue_inclusive ==
    Cardinality({t \in DOMAIN todos :
        /\ ~todos[t].completed
        /\ todos[t].due_date # None
        /\ todos[t].due_date[1] <= now})

\* count_overdue: SELECT COUNT(*) FROM todos WHERE completed = 0 AND
\* due_date IS NOT NULL AND due_date < now
count_overdue ==
    Cardinality({t \in DOMAIN todos :
        /\ ~todos[t].completed
        /\ todos[t].due_date # None
        /\ todos[t].due_date[1] < now})

todo_count_overdue ==
    /\ pc = "idle"
    /\ cur' = [NoCall EXCEPT !.op = "count_overdue"]
    /\ ret' = OkInt(count_overdue)
    /\ UNCHANGED <<notes, fts, tags, todos, templates, now, pc, schema, other>>

\* count_due_today: SELECT COUNT(*) FROM todos WHERE completed = 0 AND
\* due_date >= start AND due_date <= end, a comparison no NULL satisfies
count_due_today ==
    LET start == start_of_day(date_naive(now))
        end == end_of_day(date_naive(now))
    IN  Cardinality({t \in DOMAIN todos :
            /\ ~todos[t].completed
            /\ todos[t].due_date # None
            /\ todos[t].due_date[1] >= start
            /\ todos[t].due_date[1] <= end})

todo_count_due_today ==
    /\ pc = "idle"
    /\ cur' = [NoCall EXCEPT !.op = "count_due_today"]
    /\ ret' = OkInt(count_due_today)
    /\ UNCHANGED <<notes, fts, tags, todos, templates, now, pc, schema, other>>

----------------------------------------------------------------------------
(* template.rs *)

\* the Template struct
Template(name, content) == [name |-> name, content |-> content]

\* the names of the table
template_names == {r.name : r \in templates}

\* INSERT INTO a table without the primary key on name: the row is added
insert_row(name, content) == templates \cup {Template(name, content)}

\* INSERT OR REPLACE INTO templates (name, content): the row that holds the
\* name (a primary key conflict) is deleted, the new row is inserted
insert_or_replace(name, content) ==
    {r \in templates : r.name # name} \cup {Template(name, content)}

\* create
template_create_call(cmd, name, content) ==
    /\ templates' = insert_or_replace(name, content)
    /\ cur' = [NoCall EXCEPT !.cmd = cmd, !.op = "template_create",
                             !.name = name, !.content = content]
    /\ ret' = OkUnit
    /\ pc' = "idle"
    /\ UNCHANGED <<notes, fts, tags, todos, now, schema, other>>

template_create(name, content) ==
    /\ pc = "idle"
    /\ template_create_call("", name, content)

\* get: SELECT name, content FROM templates WHERE name = ?1, the first row
get(name) ==
    LET rows == {r \in templates : r.name = name}
    IN  IF rows = {} THEN None ELSE Some(CHOOSE r \in rows : TRUE)

template_get(name) ==
    /\ pc = "idle"
    /\ cur' = [NoCall EXCEPT !.op = "template_get", !.name = name]
    /\ ret' = OkRows(get(name))
    /\ UNCHANGED <<notes, fts, tags, todos, templates, now, pc, schema, other>>

\* delete: DELETE FROM templates WHERE name = ?1
template_delete(name) ==
    /\ pc = "idle"
    /\ templates' = {r \in templates : r.name # name}
    /\ cur' = [NoCall EXCEPT !.op = "template_delete", !.name = name]
    /\ ret' = OkBool(name \in template_names)
    /\ UNCHANGED <<notes, fts, tags, todos, now, pc, schema, other>>

\* str::replace: every non-overlapping occurrence, left to right
RECURSIVE replace(_, _, _)
replace(s, pat, with) ==
    IF Len(s) < Len(pat) \/ pat = <<>> THEN s
    ELSE IF SubSeq(s, 1, Len(pat)) = pat
         THEN with \o replace(SubSeq(s, Len(pat) + 1, Len(s)), pat, with)
         ELSE <<Head(s)>> \o replace(Tail(s), pat, with)

Digits == <<"0", "1", "2", "3", "4", "5", "6", "7", "8", "9">>
\* now.format("%Y-%m-%d"), now.format("%H:%M"), now.format("%Y-%m-%d %H:%M")
format_date(t) == <<Digits[date_naive(t) + 1]>>
format_time(t) == <<":", Digits[(t % DayLen) + 1]>>
format_datetime(t) == format_date(t) \o <<" ">> \o format_time(t)

\* format!("{{{}}}", key)
placeholder(key) == <<"{">> \o key \o <<"}">>

RECURSIVE render_vars(_, _)
render_vars(result, pairs) ==
    IF pairs = <<>> THEN result
    ELSE render_vars(replace(result, placeholder(Head(pairs)[1]), Head(pairs)[2]),
                     Tail(pairs))

\* the names of the built-in variables, and "title", the one cmd_new supplies
K_date == <<"d", "a", "t", "e">>
K_time == <<"t", "i", "m", "e">>
K_datetime == <<"d", "a", "t", "e", "t", "i", "m", "e">>
K_title == <<"t", "i", "t", "l", "e">>

\* a render that applies the custom variables before the built-in ones
render_custom_first(template_content, pairs) ==
    LET r0 == render_vars(template_content, pairs)
        r1 == replace(r0, placeholder(K_date), format_date(now))
        r2 == replace(r1, placeholder(K_time), format_time(now))
    IN  replace(r2, placeholder(K_datetime), format_datetime(now))

\* render: the built-in variables first, then the custom ones in order
render(template_content, pairs) ==
    LET r1 == replace(template_content, placeholder(K_date), format_date(now))
        r2 == replace(r1, placeholder(K_time), format_time(now))
        r3 == replace(r2, placeholder(K_datetime), format_datetime(now))
    IN  render_vars(r3, pairs)

\* render is called on a content and pairs (key, value)
template_render(template_content, pairs) ==
    /\ pc = "idle"
    /\ cur' = [NoCall EXCEPT !.op = "render", !.content = template_content,
                             !.terms = pairs]
    /\ ret' = OkRows(render(template_content, pairs))
    /\ UNCHANGED <<notes, fts, tags, todos, templates, now, pc, schema, other>>

----------------------------------------------------------------------------
(* main.rs *)

\* process::exit(1) after print_error
exit(cmd) ==
    /\ pc' = "idle"
    /\ cur' = [NoCall EXCEPT !.cmd = cmd]
    /\ ret' = Exit
    /\ UNCHANGED <<notes, fts, tags, todos, templates, now, schema, other>>

\* cmd_add: content is the positional argument, buf what stdin holds
cmd_add(content, tagl, category, stdin, buf) ==
    LET text == IF stdin THEN trim(buf)
                ELSE IF content # None THEN content[1] ELSE <<>>
        tag_list == IF tagl = None THEN <<>> ELSE tagl[1]
    IN  /\ pc = "idle"
        /\ IF ~stdin /\ content = None THEN exit("cmd_add")
           ELSE IF is_empty(text) THEN exit("cmd_add")
           ELSE note_add_call("cmd_add", text, tag_list, category, FALSE)

\* cmd_delete
cmd_delete(id) == note_delete(id)

\* char::to_lowercase, on the letters the model types
Upper == <<"H", "I", "G", "L", "O", "W">>
Lower == <<"h", "i", "g", "l", "o", "w">>
to_lowercase_char(c) ==
    IF \E k \in DOMAIN Upper : Upper[k] = c
    THEN Lower[CHOOSE k \in DOMAIN Upper : Upper[k] = c] ELSE c

\* a command that matches the priority as it was typed
keep_case(s) == s

\* str::to_lowercase
to_lowercase(s) == [k \in DOMAIN s |-> to_lowercase_char(s[k])]

\* cmd_todo, TodoAction::Add: the priority is matched in lower case
cmd_todo_add(task, priority, due) ==
    LET p == to_lowercase(priority)
        prio == IF p = <<"h", "i", "g", "h">> \/ p = <<"h">> THEN "high"
                ELSE IF p = <<"l", "o", "w">> \/ p = <<"l">> THEN "low"
                ELSE "medium"
    IN  /\ pc = "idle"
        /\ todo_add_call("cmd_todo", priority, task, prio, due)

\* the editor is started on the initial content: the command waits for it
start_editor(cmd, id, initial, date) ==
    /\ pc' = "editor"
    /\ cur' = [NoCall EXCEPT !.cmd = cmd, !.id = id, !.content = initial,
                             !.date = date]
    /\ ret' = NoRet
    /\ UNCHANGED <<notes, fts, tags, todos, templates, now, schema, other>>

\* cmd_edit, up to the editor
cmd_edit(id) ==
    /\ pc = "idle"
    /\ IF get_by_id(id) = None THEN exit("cmd_edit")
       ELSE start_editor("cmd_edit", id, get_by_id(id)[1].content, 0)

\* cmd_daily: the day a date argument names
target_date(date) ==
    IF date = None THEN Some(date_naive(now))
    ELSE IF date[1].kind = "yesterday" THEN Some(date_naive(now) - 1)
    ELSE parse_from_str(date[1])

\* cmd_daily: SELECT id, content FROM notes WHERE is_daily = 1 AND
\* created_at >= start_ts AND created_at <= end_ts LIMIT 1 (any one of them)
existing_daily(day) ==
    {n \in DOMAIN notes :
        /\ notes[n].is_daily
        /\ notes[n].created_at >= start_of_day(day)
        /\ notes[n].created_at <= end_of_day(day)}

\* the text the editor is started on for a new daily note; it is not empty
daily_template(day) == <<"#">> \o <<Digits[(day % 10) + 1]>>

\* cmd_daily, up to the editor; cur.id is 0 when no daily note exists
cmd_daily(show, date) ==
    LET day == target_date(date) IN
    /\ pc = "idle"
    /\ IF day = None THEN exit("cmd_daily")
       ELSE IF existing_daily(day[1]) = {}
            THEN IF show THEN exit("cmd_daily")
                 ELSE start_editor("cmd_daily", 0, daily_template(day[1]), day[1])
            ELSE \E n \in existing_daily(day[1]) :
                    IF show
                    THEN /\ pc' = "idle"
                         /\ cur' = [NoCall EXCEPT !.cmd = "cmd_daily", !.id = n]
                         /\ ret' = OkUnit
                         /\ UNCHANGED <<notes, fts, tags, todos, templates,
                                        now, schema, other>>
                    ELSE start_editor("cmd_daily", n, notes[n].content, day[1])

\* cmd_new, up to the editor
cmd_new(template_name, title) ==
    LET tmpl == get(template_name)
        title_val == IF title = None THEN <<>> ELSE title[1]
        title_vars == IF is_empty(title_val) THEN <<>>
                ELSE <<<<K_title, title_val>>>>
    IN  /\ pc = "idle"
        /\ IF tmpl = None THEN exit("cmd_new")
           ELSE start_editor("cmd_new", 0, render(tmpl[1].content, title_vars), 0)

\* cmd_template, TemplateAction::Edit, up to the editor
cmd_template_edit(name) ==
    LET existing == get(name) IN
    /\ pc = "idle"
    /\ IF existing = None THEN exit("cmd_template")
       ELSE /\ pc' = "editor"
            /\ cur' = [NoCall EXCEPT !.cmd = "cmd_template", !.name = name,
                                     !.content = existing[1].content]
            /\ ret' = NoRet
            /\ UNCHANGED <<notes, fts, tags, todos, templates, now, schema, other>>

\* the Err arm of the match on edit_with_editor: "Editor error", exit(1)
editor_error(cmd) ==
    /\ pc' = "idle"
    /\ cur' = [NoCall EXCEPT !.cmd = cmd, !.op = "edit_with_editor"]
    /\ ret' = Exit
    /\ UNCHANGED <<notes, fts, tags, todos, templates, now, schema, other>>

\* the Ok arm of the match on edit_with_editor: what the command does with
\* the text the editor left
editor_ok(text) ==
    LET trimmed == trim(text) IN
    IF is_empty(trimmed) THEN exit(cur.cmd)
    ELSE IF cur.cmd = "cmd_edit" THEN note_update_call("cmd_edit", cur.id, trimmed)
    ELSE IF cur.cmd = "cmd_daily"
         THEN IF cur.id # 0
              THEN note_update_call("cmd_daily", cur.id, trimmed)
              ELSE note_add_call("cmd_daily", trimmed, <<<<"d", "a", "i", "l", "y">>>>,
                                 None, TRUE)
    ELSE IF cur.cmd = "cmd_template"
         THEN template_create_call("cmd_template", cur.name, trimmed)
    ELSE note_add_call("cmd_new", trimmed, <<>>, None, FALSE)

\* a command that takes the file whatever the editor's exit status
edit_with_editor_unchecked(success, text) ==
    /\ pc = "editor"
    /\ editor_ok(text)

\* edit_with_editor returns: success is the editor's exit status (or the
\* outcome of the file I/O around it), text what the temporary file holds;
\* then the rest of the command that waited for it
edit_with_editor(success, text) ==
    /\ pc = "editor"
    /\ IF ~success THEN editor_error(cur.cmd) ELSE editor_ok(text)

----------------------------------------------------------------------------
(* The environment *)

\* the process dies (crash, kill, power loss) between two statements: what
\* the statements before it wrote stays written
Interrupt ==
    /\ pc # "idle"
    /\ pc' = "idle"
    /\ ret' = Ret("interrupted", FALSE, 0, <<>>)
    /\ UNCHANGED <<notes, fts, tags, todos, templates, now, cur, schema, other>>

\* a second process invocation works on the same store file: the engine runs
\* one statement at a time, so between two statements of one invocation the
\* other may run.  Switch parks the running invocation and resumes the other.
Parked(p, c, r) == [pc |-> p, cur |-> c, ret |-> r]
Switch ==
    /\ pc' = other.pc
    /\ cur' = other.cur
    /\ ret' = other.ret
    /\ other' = Parked(pc, cur, ret)
    /\ UNCHANGED <<notes, fts, tags, todos, templates, now, schema>>

\* the clock advances
Tick ==
    /\ now < MaxTime
    /\ now' = now + 1
    /\ UNCHANGED <<notes, fts, tags, todos, templates, pc, cur, ret, schema,
                   other>>

----------------------------------------------------------------------------
(* Inputs *)

Ids == 1..MaxId
\* note contents: "a" and "a b"
Contents == {<<"a">>, <<"a", " ", "b">>}
\* search terms
Terms == {<<"a">>, <<"b">>}
\* tag strings as stored, and as typed (one with surrounding whitespace)
TagStrs == {<<"w">>, <<"j">>}
TagLists == {<<>>, <<<<"w">>>>, <<<<"w">>, <<"j">>>>}
TypedTagLists == {<<>>, <<<<" ", "w">>>>, <<<<"w">>, <<"j", " ">>>>}
Categories == {None, Some(<<"c">>)}
\* what the user types as note content, on the command line, into stdin or
\* into the editor
TypedTexts == {<<"a">>, <<" ">>, <<" ", "b">>}
\* what the user types after --date
TypedDates ==
    {None, Some(DateArg("yesterday", 0)), Some(DateArg("junk", 0))}
        \cup {Some(DateArg("ymd", d)) : d \in 0..date_naive(MaxTime)}
\* template names
TemplateNames == {<<"n">>, <<"m">>}
\* template contents: "{date}", "x{title}", "{foo}", "{time} {datetime}",
\* "{date}{title}"; and the pairs given to render
RenderContents ==
    {placeholder(K_date),
     <<"x">> \o placeholder(K_title),
     placeholder(<<"f", "o", "o">>),
     placeholder(K_time) \o <<" ">> \o placeholder(K_datetime),
     placeholder(K_date) \o placeholder(K_title)}
RenderPairs ==
    {<<>>, <<<<K_title, <<"X">>>>>>, <<<<K_date, <<"Y">>>>>>,
     <<<<K_title, <<"X">>>>, <<K_date, <<"Y">>>>>>}
\* pair lists in both orders, of plain values and of a value that is the
\* placeholder of the other key
K_foo == <<"f", "o", "o">>
RenderOrderPairs ==
    {<<<<K_title, <<"X">>>>, <<K_foo, <<"Z">>>>>>,
     <<<<K_foo, <<"Z">>>>, <<K_title, <<"X">>>>>>,
     <<<<K_title, placeholder(K_foo)>>, <<K_foo, <<"Z">>>>>>,
     <<<<K_foo, <<"Z">>>>, <<K_title, placeholder(K_foo)>>>>,
     <<<<K_title, <<"X">>>>, <<K_date, <<"Y">>>>>>,
     <<<<K_date, <<"Y">>>>, <<K_title, <<"X">>>>>>}
\* what the user types after --priority and after --due: the last day is
\* later than the instant list_todos gives a todo without due date
TypedPriorities ==
    {<<"h">>, <<"H">>, <<"h", "i", "g", "h">>, <<"l">>, <<"L", "o", "w">>,
     <<"m">>, <<>>}
TypedDues ==
    {None, Some(DateArg("junk", 0))}
        \cup {Some(DateArg("ymd", d)) : d \in {0, date_naive(MaxTime) + 2}}
\* note contents to search in ("a", "A b", "ab") and the term lists typed
SearchContents == {<<"a">>, <<"A", " ", "b">>, <<"a", "b">>}
TermLists == {<<<<"a">>>>, <<<<"A">>>>, <<<<"a">>, <<"b">>>>}

----------------------------------------------------------------------------
(* Specifications *)

Init ==
    /\ notes = <<>>
    /\ fts = <<>>
    /\ tags = <<>>
    /\ todos = <<>>
    /\ templates = {}
    /\ now = 0
    /\ pc = "idle"
    /\ cur = NoCall
    /\ ret = NoRet
    /\ schema = Structures
    /\ other = Parked("idle", NoCall, NoRet)

\* a store file that was just created: nothing in it yet
InitFresh ==
    /\ notes = <<>>
    /\ fts = <<>>
    /\ tags = <<>>
    /\ todos = <<>>
    /\ templates = {}
    /\ now = 0
    /\ pc = "idle"
    /\ cur = NoCall
    /\ ret = NoRet
    /\ schema = {}
    /\ other = Parked("idle", NoCall, NoRet)

\* the statements after the first of note add, delete and update
AddSteps == note_add_fts \/ note_add_tags
DeleteSteps == note_delete_tags \/ note_delete_note
UpdateSteps == note_update_fts_delete \/ note_update_fts_insert
NoteSteps == AddSteps \/ DeleteSteps \/ UpdateSteps

NoteCalls ==
    \/ \E c \in Contents, tl \in TagLists : note_add(c, tl, None, FALSE)
    \/ \E id \in Ids, c \in Contents : note_update(id, c)
    \/ \E id \in Ids : note_delete(id)

TagCalls ==
    \/ \E old \in TagStrs, new \in TagStrs : tags_rename(old, new)
    \/ \E id \in Ids, t \in TagStrs : tags_add_tag(id, t)
    \/ \E id \in Ids, t \in TagStrs : tags_remove_tag(id, t)

NoteReads ==
    \/ \E id \in Ids : note_get_by_id(id)
    \/ \E t \in Terms : search_notes(<<t>>, None, FALSE)

\* the note and tag repositories, every invocation running to its end
Next == NoteCalls \/ NoteSteps \/ TagCalls \/ NoteReads
Spec == Init /\ [][Next]_vars

\* add with every kind of argument, read back
NextRoundTrip ==
    \/ \E c \in Contents, tl \in TypedTagLists, cat \in Categories, d \in BOOLEAN :
           note_add(c, tl, cat, d)
    \/ AddSteps
    \/ \E id \in Ids : note_delete(id)
    \/ DeleteSteps
    \/ \E id \in Ids : note_get_by_id(id)
SpecRoundTrip == Init /\ [][NextRoundTrip]_vars

\* notes, todos and templates, looked up, changed and deleted by id or name
NextStore ==
    \/ \E tl \in {<<>>, <<<<"w">>>>} : note_add(<<"a">>, tl, None, FALSE)
    \/ \E id \in Ids, c \in Contents : note_update(id, c)
    \/ \E id \in Ids : note_delete(id)
    \/ \E id \in Ids : note_get_by_id(id)
    \/ NoteSteps
    \/ todo_add(<<"t">>, "medium", None)
    \/ \E id \in Ids : todo_mark_done(id)
    \/ \E id \in Ids : todo_delete(id)
    \/ \E name \in TemplateNames : template_create(name, <<"x">>)
    \/ \E name \in TemplateNames : template_get(name)
    \/ \E name \in TemplateNames : template_delete(name)
SpecStore == Init /\ [][NextStore]_vars

\* the commands that write notes, as typed, while the clock runs
NextCli ==
    \/ \E content \in {None} \cup {Some(t) : t \in TypedTexts}, stdin \in BOOLEAN,
          buf \in TypedTexts :
           cmd_add(content, None, None, stdin, buf)
    \/ \E id \in Ids : cmd_edit(id)
    \/ \E id \in Ids : cmd_delete(id)
    \/ \E show \in BOOLEAN, date \in TypedDates : cmd_daily(show, date)
    \/ \E title \in {None, Some(<<"T">>)} : cmd_new(<<"n">>, title)
    \/ \E success \in BOOLEAN, text \in TypedTexts : edit_with_editor(success, text)
    \/ template_create(<<"n">>, <<"x">>)
    \/ NoteSteps
    \/ Tick
SpecCli == Init /\ [][NextCli]_vars

\* daily commands only, while the clock runs
NextDaily ==
    \/ \E show \in BOOLEAN, date \in TypedDates : cmd_daily(show, date)
    \/ \E success \in BOOLEAN, text \in TypedTexts : edit_with_editor(success, text)
    \/ AddSteps
    \/ UpdateSteps
    \/ Tick
SpecDaily == Init /\ [][NextDaily]_vars

\* notes of several days, categories and tags, listed under every filter
NextList ==
    \/ \E cat \in Categories : note_add(<<"a">>, <<>>, cat, FALSE)
    \/ note_add(<<"a">>, <<<<"w">>>>, Some(<<"c">>), FALSE)
    \/ note_add(<<"a">>, <<<<"w">>, <<"w">>>>, None, FALSE)
    \/ AddSteps
    \/ \E limit \in {1, MaxId}, tag \in {None, Some(<<"w">>)}, cat \in Categories,
          today_only \in BOOLEAN :
           note_list(limit, tag, cat, today_only)
    \/ Tick
SpecList == Init /\ [][NextList]_vars

\* notes of several contents and tags, searched by terms and by tag
NextSearch ==
    \/ \E c \in SearchContents : note_add(c, <<>>, None, FALSE)
    \/ note_add(<<"a">>, <<<<"w">>>>, None, FALSE)
    \/ note_add(<<"A", " ", "b">>, <<<<"w">>, <<"w">>>>, None, FALSE)
    \/ AddSteps
    \/ \E terms \in TermLists \cup {<<>>}, tag \in {None, Some(<<"w">>)},
          case_sensitive \in BOOLEAN :
           search_notes(terms, tag, case_sensitive)
    \/ Tick
SpecSearch == Init /\ [][NextSearch]_vars

\* the todo commands, as typed
NextTodo ==
    \/ \E priority \in TypedPriorities, due \in {None, Some(DateArg("ymd", 0))} :
           cmd_todo_add(<<"t">>, priority, due)
    \/ \E id \in Ids : todo_mark_done(id)
    \/ \E id \in Ids : todo_delete(id)
    \/ \E pending \in BOOLEAN : todo_list_todos(pending)
SpecTodo == Init /\ [][NextTodo]_vars

\* todos of every priority and due date, completed or not, listed
NextTodoList ==
    \/ \E priority \in {"high", "low", "urgent"}, due \in TypedDues :
           todo_add(<<"t">>, priority, due)
    \/ \E id \in Ids : todo_mark_done(id)
    \/ \E pending \in BOOLEAN : todo_list_todos(pending)
SpecTodoList == Init /\ [][NextTodoList]_vars

\* todos due today, on the first day, on no day or typed with no date, done,
\* deleted and counted while the clock runs
NextTodoCount ==
    \/ \E due \in {None, Some(DateArg("junk", 0)), Some(DateArg("ymd", 0)),
                    Some(DateArg("ymd", date_naive(now)))} :
           todo_add(<<"t">>, "medium", due)
    \/ \E id \in Ids : todo_mark_done(id)
    \/ \E id \in Ids : todo_delete(id)
    \/ todo_count_stats
    \/ todo_count_overdue
    \/ todo_count_due_today
    \/ Tick
SpecTodoCount == Init /\ [][NextTodoCount]_vars

\* notes added with tags and deleted, tags added, removed, renamed, counted
NextTags ==
    \/ \E tl \in TagLists : note_add(<<"a">>, tl, None, FALSE)
    \/ AddSteps
    \/ \E id \in Ids : note_delete(id)
    \/ DeleteSteps
    \/ TagCalls
    \/ tags_list_all
SpecTags == Init /\ [][NextTags]_vars

\* templates created, read, deleted and used for a new note, by name
NextTemplate ==
    \/ \E name \in TemplateNames, content \in {<<"x">>, <<"y">>} :
           template_create(name, content)
    \/ \E name \in TemplateNames : template_get(name)
    \/ \E name \in TemplateNames : template_delete(name)
    \/ \E title \in {None, Some(<<"X">>)} : cmd_new(<<"n">>, title)
    \/ \E success \in BOOLEAN, text \in TypedTexts : edit_with_editor(success, text)
    \/ note_add_fts
SpecTemplate == Init /\ [][NextTemplate]_vars

\* templates rendered, directly and by the new command (whose editor is left
\* without saving), while the clock runs
NextRender ==
    \/ \E content \in RenderContents, pairs \in RenderPairs :
           template_render(content, pairs)
    \/ \E content \in RenderContents : template_create(<<"n">>, content)
    \/ \E title \in {None, Some(<<"X">>)} : cmd_new(<<"n">>, title)
    \/ edit_with_editor(FALSE, <<>>)
    \/ Tick
SpecRender == Init /\ [][NextRender]_vars

\* the commands that start an editor, on the notes and the template they
\* saved before; the editor fails, or leaves a text or blanks
NextEditor ==
    \/ template_create(<<"n">>, <<"x">>)
    \/ \E id \in Ids : cmd_edit(id)
    \/ cmd_daily(FALSE, None)
    \/ cmd_new(<<"n">>, None)
    \/ \E name \in TemplateNames : cmd_template_edit(name)
    \/ \E success \in BOOLEAN, text \in {<<" ", "b">>, <<" ">>} :
           edit_with_editor(success, text)
    \/ AddSteps
    \/ UpdateSteps
SpecEditor == Init /\ [][NextEditor]_vars

\* templates rendered with two pairs in either order while the clock runs
NextRenderOrder ==
    \/ \E content \in RenderContents, pairs \in RenderOrderPairs :
           template_render(content, pairs)
    \/ Tick
SpecRenderOrder == Init /\ [][NextRenderOrder]_vars

\* the statements of initialize
InitSteps == initialize_batch \/ initialize_fts_exists \/ initialize_fts_create

\* a new store file: initialize is called again and again, it may die between
\* two statements, and once the structures are there rows are written
NextInit ==
    \/ initialize
    \/ InitSteps
    \/ Interrupt
    \/ /\ schema = Structures
       /\ \/ \E tl \in {<<>>, <<<<"w">>>>} : note_add(<<"a">>, tl, None, FALSE)
          \/ todo_add(<<"t">>, "medium", None)
          \/ template_create(<<"n">>, <<"x">>)
    \/ AddSteps
SpecInit == InitFresh /\ [][NextInit]_vars

\* the other invocation is not running, or it is running one of ops
Beside(ops) == other.pc = "idle" \/ other.cur.op \in ops

\* two invocations at a time on the same store, an add beside an add, an
\* update beside an update or a delete: each runs statement by statement, and
\* the engine takes the statements of the two in any order
NextConcurrent ==
    \/ /\ Beside({"note_add"})
       /\ \E tl \in {<<>>, <<<<"w">>>>} : note_add(<<"a">>, tl, None, FALSE)
    \/ /\ Beside({"note_update", "note_delete"})
       /\ \E id \in Ids, c \in Contents : note_update(id, c)
    \/ /\ Beside({"note_update"})
       /\ \E id \in Ids : note_delete(id)
    \/ NoteSteps
    \/ Switch
SpecConcurrent == Init /\ [][NextConcurrent]_vars

\* notes of every kind, updated while the clock runs
NextUpdate ==
    \/ note_add(<<"a">>, <<>>, None, FALSE)
    \/ note_add(<<"a">>, <<<<"w">>>>, Some(<<"c">>), TRUE)
    \/ AddSteps
    \/ \E id \in Ids, c \in Contents : note_update(id, c)
    \/ UpdateSteps
    \/ Tick
SpecUpdate == Init /\ [][NextUpdate]_vars

\* the same, and the process may die between two statements
NextCrash == NoteCalls \/ NoteSteps \/ TagCalls \/ Interrupt
SpecCrash == Init /\ [][NextCrash]_vars

----------------------------------------------------------------------------
(* Claims *)

Interrupted(op) == pc = "idle" /\ ret.status = "interrupted" /\ cur.op = op
Completed(op) == pc = "idle" /\ ret.status = "ok" /\ cur.op = op
TagRowsOf(id) == {k \in DOMAIN tags : tags[k].note_id = id}

\* C1: when no invocation is running (every add, update and delete so far
\* has completed), the index has an entry for exactly the ids of the notes
\* table, and each entry's content is the note's current content.
C1_IndexMirrorsNotes ==
    pc = "idle" =>
        /\ DOMAIN fts = DOMAIN notes
        /\ \A i \in DOMAIN notes : fts[i] = notes[i].content

\* C1 witness: an update that changed a note's content has completed while
\* another note exists.
C1_Witness ==
    /\ Completed("note_update")
    /\ ret.b
    /\ Cardinality(DOMAIN notes) = 2
    /\ \E i \in DOMAIN notes : notes[i].content # notes[cur.id].content

\* C2: an interrupted add leaves either none of its effects or all of them
\* (the note row, its index entry, one tag row per supplied tag).
C2_AddAllOrNone ==
    Interrupted("note_add") =>
        \/ /\ cur.id \notin DOMAIN notes
           /\ cur.id \notin DOMAIN fts
           /\ TagRowsOf(cur.id) = {}
        \/ /\ cur.id \in DOMAIN notes
           /\ cur.id \in DOMAIN fts
           /\ fts[cur.id] = cur.content
           /\ Cardinality(TagRowsOf(cur.id)) = Len(cur.tags)

\* C3: an interrupted update never leaves a note whose new content is not in
\* the index, and an interrupted delete never leaves a note row without its
\* index entry.
C3_UpdateDeleteAllOrNone ==
    /\ (/\ Interrupted("note_update")
        /\ cur.id \in DOMAIN notes
        /\ notes[cur.id].content = cur.content)
           => (cur.id \in DOMAIN fts /\ fts[cur.id] = cur.content)
    /\ (Interrupted("note_delete") /\ cur.id \in DOMAIN notes)
           => cur.id \in DOMAIN fts

\* C4: in every state, the states interruptions leave included, every tag
\* row's note_id and every index entry's id is the id of a note.
C4_NoOrphans ==
    /\ \A k \in DOMAIN tags : tags[k].note_id \in DOMAIN notes
    /\ DOMAIN fts \subseteq DOMAIN notes

\* C4 witness: a delete of a tagged note was interrupted after its index
\* entry was removed, while another note still has its tag row.
C4_Witness ==
    /\ Interrupted("note_delete")
    /\ cur.id \in DOMAIN notes
    /\ cur.id \notin DOMAIN fts
    /\ tags # <<>>

Range(s) == {s[k] : k \in DOMAIN s}

\* C5: the last statement of delete(id) of an existing note returns true and
\* leaves no note row, no tag row and no index entry for id; get_by_id(id) is
\* none and a search for a term only that note contained finds nothing.
C5_CascadeDelete ==
    [][(pc = "del_note" /\ pc' = "idle" /\ ret'.status = "ok"
            /\ cur.id \in DOMAIN notes) =>
        /\ ret'.b
        /\ cur.id \notin DOMAIN notes'
        /\ cur.id \notin DOMAIN fts'
        /\ TagRowsOf(cur.id)' = {}
        /\ get_by_id(cur.id)' = None
        /\ \A t \in Terms :
              (/\ phrase_match(notes[cur.id].content, t)
               /\ \A n \in DOMAIN notes \ {cur.id} : ~phrase_match(notes[n].content, t))
              => search(<<t>>, None, FALSE)' = {<<>>}
      ]_vars

\* C5 witness: a delete returned true, and another note with a tag remains.
C5_Witness ==
    /\ Completed("note_delete")
    /\ ret.b
    /\ DOMAIN notes # {}
    /\ tags # <<>>

\* C6 as claimed: after add, get_by_id on the returned id gives the content
\* and category supplied and a tag set equal to the supplied tag set.
C6_RoundTripAsTyped ==
    Completed("note_add") =>
        /\ get_by_id(ret.n) # None
        /\ get_by_id(ret.n)[1].content = cur.content
        /\ get_by_id(ret.n)[1].category = cur.category
        /\ Range(get_by_id(ret.n)[1].tags) = Range(cur.tags)

\* C6 amended: after add, get_by_id on the returned id gives the content and
\* category supplied and a tag set equal to the set of the supplied tags, each
\* trimmed of surrounding whitespace.
C6_RoundTripTrimmed ==
    Completed("note_add") =>
        /\ get_by_id(ret.n) # None
        /\ get_by_id(ret.n)[1].content = cur.content
        /\ get_by_id(ret.n)[1].category = cur.category
        /\ Range(get_by_id(ret.n)[1].tags) = {trim(t) : t \in Range(cur.tags)}

\* C6 witness: an add with a category and a tag typed with whitespace around
\* it has returned.
C6_Witness ==
    /\ Completed("note_add")
    /\ cur.category # None
    /\ \E t \in Range(cur.tags) : trim(t) # t

\* a step that calls op (a step taken while no invocation is running and that
\* is not the clock's)
CallStep(op) == pc = "idle" /\ now' = now /\ cur'.op = op

\* C7: for an absent id or name, note get_by_id and template get return none,
\* note update, note delete, todo mark_done, todo delete and template delete
\* return false, and no step of the call changes any table or the index.
C7_NotFoundChangesNothing ==
    [][/\ (CallStep("note_get_by_id") /\ cur'.id \notin DOMAIN notes)
            => (ret' = OkRows(None) /\ pc' = "idle" /\ UNCHANGED db)
       /\ (CallStep("template_get") /\ cur'.name \notin template_names)
            => (ret' = OkRows(None) /\ pc' = "idle" /\ UNCHANGED db)
       /\ (CallStep("note_update") /\ cur'.id \notin DOMAIN notes)
            => (ret' = OkBool(FALSE) /\ pc' = "idle" /\ UNCHANGED db)
       /\ (/\ cur'.op = "note_delete"
           /\ cur'.id \notin DOMAIN notes
           /\ pc = "idle" => now' = now)
            => (UNCHANGED db /\ (pc' = "idle" => ret' = OkBool(FALSE)))
       /\ (CallStep("todo_mark_done") /\ cur'.id \notin DOMAIN todos)
            => (ret' = OkBool(FALSE) /\ pc' = "idle" /\ UNCHANGED db)
       /\ (CallStep("todo_delete") /\ cur'.id \notin DOMAIN todos)
            => (ret' = OkBool(FALSE) /\ pc' = "idle" /\ UNCHANGED db)
       /\ (CallStep("template_delete") /\ cur'.name \notin template_names)
            => (ret' = OkBool(FALSE) /\ pc' = "idle" /\ UNCHANGED db)
      ]_vars

\* C7 witness: a delete of an absent note id has returned false while notes,
\* todos and templates exist.
C7_Witness ==
    /\ Completed("note_delete")
    /\ ~ret.b
    /\ cur.id \notin DOMAIN notes
    /\ DOMAIN notes # {}
    /\ DOMAIN todos # {}
    /\ templates # {}

\* C8: at most one note with is_daily set has its created_at within any one
\* local calendar day.
C8_OneDailyNotePerDay ==
    \A n, m \in DOMAIN notes :
        (/\ notes[n].is_daily
         /\ notes[m].is_daily
         /\ date_naive(notes[n].created_at) = date_naive(notes[m].created_at))
        => n = m

\* C9: no stored note has content that is empty after trimming.
C9_ContentNotBlank ==
    \A n \in DOMAIN notes : ~is_empty(trim(notes[n].content))

\* what C10 asks of a filter: the note satisfies every filter that is given
C10_Satisfies(n, tag, category, today_only) ==
    /\ today_only => notes[n].created_at >= start_of_day(date_naive(now))
    /\ category # None => notes[n].category = category
    /\ tag # None => \E k \in DOMAIN tags : tags[k].note_id = n /\ tags[k].tag = tag[1]

\* C10: list returns notes that satisfy every given filter, each once, as
\* many as there are up to limit, newest first, and none it leaves out is
\* newer than one it returns.
C10_ListFilters ==
    [][CallStep("note_list") =>
        LET r == ret'.rows
            matching == {n \in DOMAIN notes :
                            C10_Satisfies(n, cur'.tag, cur'.category, cur'.flag)}
            returned == {r[k].id : k \in DOMAIN r}
        IN  /\ ret'.status = "ok"
            /\ returned \subseteq matching
            /\ \A k \in DOMAIN r : r[k] = Note(r[k].id, notes[r[k].id], get_tags_for_note(r[k].id))
            /\ \A i, j \in DOMAIN r : i < j =>
                   (r[i].id # r[j].id /\ r[i].created_at >= r[j].created_at)
            /\ Len(r) = IF Cardinality(matching) < cur'.limit
                        THEN Cardinality(matching) ELSE cur'.limit
            /\ \A n \in matching \ returned, k \in DOMAIN r :
                   notes[n].created_at <= r[k].created_at
      ]_vars

\* C10 witness: a list under all three filters has returned some notes and
\* left another note out.
C10_Witness ==
    /\ Completed("note_list")
    /\ cur.flag
    /\ cur.category # None
    /\ cur.tag # None
    /\ ret.rows # <<>>
    /\ Cardinality(DOMAIN notes) > Len(ret.rows)

\* C11: a search with a tag given returns the notes that have a tag row with
\* that tag, each note once, newest first, whatever the terms and the flag.
C11_SearchByTag ==
    [][(CallStep("search_notes") /\ cur'.tag # None) =>
        LET r == ret'.rows
            tagged == {n \in DOMAIN notes :
                          \E k \in DOMAIN tags :
                              tags[k].note_id = n /\ tags[k].tag = cur'.tag[1]}
        IN  /\ ret'.status = "ok"
            /\ {r[k].id : k \in DOMAIN r} = tagged
            /\ \A i, j \in DOMAIN r : i < j =>
                   (r[i].id # r[j].id /\ r[i].created_at >= r[j].created_at)
      ]_vars

\* C12 as stated: with no tag and some terms, the notes returned are those
\* whose index entry matches every term, whatever the case_sensitive flag.
C12_SearchAnd ==
    [][(CallStep("search_notes") /\ cur'.tag = None /\ cur'.terms # <<>>) =>
        LET r == ret'.rows
            terms == cur'.terms
        IN  {r[k].id : k \in DOMAIN r} =
                {n \in DOMAIN notes \cap DOMAIN fts :
                    \A k \in DOMAIN terms : phrase_match(fts[n], terms[k])}
      ]_vars

\* C12 amended: with no tag and some terms, the notes returned are those whose
\* index entry matches every term and, when case_sensitive is set, whose
\* content also contains every term letter for letter.
C12_SearchAndCase ==
    [][(CallStep("search_notes") /\ cur'.tag = None /\ cur'.terms # <<>>) =>
        LET r == ret'.rows
            terms == cur'.terms
        IN  /\ ret'.status = "ok"
            /\ {r[k].id : k \in DOMAIN r} =
                {n \in DOMAIN notes \cap DOMAIN fts :
                    \A k \in DOMAIN terms :
                        /\ phrase_match(fts[n], terms[k])
                        /\ cur'.flag => contains(notes[n].content, terms[k])}
      ]_vars

\* C12 witness: a search for two terms, not case sensitive, has returned a
\* note while another note, which has only one of the terms, is left out.
C12_Witness ==
    /\ Completed("search_notes")
    /\ cur.tag = None
    /\ ~cur.flag
    /\ Len(cur.terms) = 2
    /\ Len(ret.rows) = 1
    /\ \E n \in DOMAIN notes :
           /\ phrase_match(notes[n].content, cur.terms[1])
           /\ ~phrase_match(notes[n].content, cur.terms[2])

\* C13 as stated: every stored priority is one of high, medium, low, and
\* todo add stores high for high or h, low for low or l, medium for anything
\* else.
C13_PriorityNormalized ==
    [][(CallStep("todo_add") /\ cur'.cmd = "cmd_todo") =>
        LET typed == cur'.name2 IN
        /\ \A t \in DOMAIN todos' : todos'[t].priority \in {"high", "medium", "low"}
        /\ todos'[ret'.n].priority =
              IF typed \in {<<"h", "i", "g", "h">>, <<"h">>} THEN "high"
              ELSE IF typed \in {<<"l", "o", "w">>, <<"l">>} THEN "low"
              ELSE "medium"
      ]_vars

C13_Spells(typed, word) ==
    /\ Len(typed) = Len(word)
    /\ \A k \in DOMAIN word : to_lowercase_char(typed[k]) = word[k]

\* C13 amended: every stored priority is one of high, medium, low, and todo
\* add stores high for high or h, low for low or l, in capitals or small
\* letters, and medium for anything else.
C13_PriorityNormalizedAnyCase ==
    [][(CallStep("todo_add") /\ cur'.cmd = "cmd_todo") =>
        LET typed == cur'.name2 IN
        /\ \A t \in DOMAIN todos' : todos'[t].priority \in {"high", "medium", "low"}
        /\ todos'[ret'.n].priority =
              IF C13_Spells(typed, <<"h", "i", "g", "h">>) \/ C13_Spells(typed, <<"h">>)
              THEN "high"
              ELSE IF C13_Spells(typed, <<"l", "o", "w">>) \/ C13_Spells(typed, <<"l">>)
              THEN "low"
              ELSE "medium"
      ]_vars

\* C13 witness: todos typed with h, with l and with another word are stored.
C13_Witness ==
    /\ Completed("todo_add")
    /\ cur.cmd = "cmd_todo"
    /\ {todos[t].priority : t \in DOMAIN todos} = {"high", "low"}
    /\ cur.name2 = <<"L", "o", "w">>

C14_Rank(priority) ==
    CASE priority = "high" -> 0
      [] priority = "medium" -> 1
      [] priority = "low" -> 2
      [] OTHER -> 3

\* C14: list_todos returns all todos (the incomplete ones with pending_only),
\* each once, by priority rank ascending and within one rank by due date
\* ascending, the todos without due date after all that have one.
C14_ListTodosOrder ==
    [][CallStep("list_todos") =>
        LET r == ret'.rows IN
        /\ ret'.status = "ok"
        /\ {r[k].id : k \in DOMAIN r} =
               {t \in DOMAIN todos : cur'.flag => ~todos[t].completed}
        /\ \A k \in DOMAIN r : r[k] = Todo(r[k].id, todos[r[k].id])
        /\ \A i, j \in DOMAIN r : i < j =>
               /\ r[i].id # r[j].id
               /\ C14_Rank(r[i].priority) <= C14_Rank(r[j].priority)
               /\ C14_Rank(r[i].priority) = C14_Rank(r[j].priority) =>
                      /\ r[i].due_date = None => r[j].due_date = None
                      /\ (r[i].due_date # None /\ r[j].due_date # None)
                             => r[i].due_date[1] <= r[j].due_date[1]
      ]_vars

C15_Count(T, tag) == Cardinality({k \in DOMAIN T : T[k].tag = tag})

C15_RowsRenamed(old, new) ==
    /\ ret'.status = "ok"
    /\ ret'.n = C15_Count(tags, old)
    /\ Len(tags') = Len(tags)
    /\ \A k \in DOMAIN tags :
           /\ tags'[k].note_id = tags[k].note_id
           /\ tags'[k].tag = IF tags[k].tag = old THEN new ELSE tags[k].tag

C15_CountsMoved(old, new) ==
    /\ old \notin DOMAIN group_by_tag(tags')
    /\ C15_Count(tags', new) = C15_Count(tags, new) + ret'.n

\* C15 as stated: rename(old, new) rewrites exactly the rows equal to old and
\* returns their number; afterwards old has no entry in list_all and the
\* count of new has grown by that number; no row is added, dropped or merged.
C15_Rename ==
    [][CallStep("tags_rename") =>
        /\ C15_RowsRenamed(cur'.name, cur'.name2)
        /\ C15_CountsMoved(cur'.name, cur'.name2)
      ]_vars

\* C15 amended: the same for old different from new; rename(old, old) returns
\* the number of rows equal to old and leaves the tag rows as they were.
C15_RenameDistinct ==
    [][CallStep("tags_rename") =>
        /\ C15_RowsRenamed(cur'.name, cur'.name2)
        /\ cur'.name # cur'.name2 => C15_CountsMoved(cur'.name, cur'.name2)
        /\ cur'.name = cur'.name2 => tags' = tags
      ]_vars

\* C15 witness: a rename has just given a note its second row of the new tag.
C15_Witness ==
    /\ Completed("tags_rename")
    /\ cur.name # cur.name2
    /\ ret.n = 1
    /\ \E i, j \in DOMAIN tags :
           i # j /\ tags[i] = tags[j] /\ tags[i].tag = cur.name2

\* C16: list_all has one entry per distinct tag string, its count is the
\* number of notes that carry the tag, and the counts descend.
C16_ListAllCounts ==
    [][CallStep("tags_list_all") =>
        LET r == ret'.rows IN
        /\ ret'.status = "ok"
        /\ {r[k].tag : k \in DOMAIN r} = {tags[k].tag : k \in DOMAIN tags}
        /\ \A i, j \in DOMAIN r : i < j =>
               (r[i].tag # r[j].tag /\ r[i].count >= r[j].count)
        /\ \A k \in DOMAIN r :
               r[k].count = Cardinality({tags[i].note_id :
                                i \in {j \in DOMAIN tags : tags[j].tag = r[k].tag}})
      ]_vars

\* C17: there is at most one template per name; after create(name, content)
\* get(name) is that content, after delete(name) it is none, and neither
\* changes what get returns for another name (so get returns the most recent
\* create not followed by a delete); a create of what get(name) already
\* returns leaves the table as it is.
C17_TemplateUpsert ==
    [][/\ \A r1, r2 \in templates' : r1.name = r2.name => r1 = r2
       /\ \A name \in TemplateNames :
              /\ (CallStep("template_create") /\ cur'.name = name) =>
                     /\ ret'.status = "ok"
                     /\ get(name)' = Some(Template(name, cur'.content))
                     /\ get(name) = Some(Template(name, cur'.content))
                            => templates' = templates
              /\ (CallStep("template_delete") /\ cur'.name = name) =>
                     get(name)' = None
              /\ (\/ ~(CallStep("template_create") \/ CallStep("template_delete"))
                  \/ cur'.name # name) => get(name)' = get(name)
      ]_vars

\* C17 witness: a create has returned and the table holds two names, the one
\* just created with the content given.
C17_Witness ==
    /\ Completed("template_create")
    /\ Cardinality(templates) = 2
    /\ cur.content = <<"y">>
    /\ Template(cur.name, <<"y">>) \in templates

C18_BuiltIns ==
    <<<<K_date, format_date(now)>>, <<K_time, format_time(now)>>,
      <<K_datetime, format_datetime(now)>>>>

C18_StartsWith(s, prefix) ==
    Len(s) >= Len(prefix) /\ SubSeq(s, 1, Len(prefix)) = prefix

\* the content read once from left to right: a placeholder of a built-in
\* variable, or else of a supplied pair, gives its value; any other
\* character, those of other placeholders included, gives itself
RECURSIVE C18_Substituted(_, _)
C18_Substituted(s, pairs) ==
    LET known == C18_BuiltIns \o pairs
        hits == {k \in DOMAIN known : C18_StartsWith(s, placeholder(known[k][1]))}
        k == CHOOSE x \in hits : \A y \in hits : x <= y
    IN  IF s = <<>> THEN <<>>
        ELSE IF hits = {} THEN <<Head(s)>> \o C18_Substituted(Tail(s), pairs)
        ELSE known[k][2]
                \o C18_Substituted(
                       SubSeq(s, Len(placeholder(known[k][1])) + 1, Len(s)), pairs)

C19_InitializeIdempotent ==
    [][/\ (cur'.op = "initialize" /\ (pc = "idle" => now' = now)) =>
              (UNCHANGED db /\ schema \subseteq schema')
       /\ (/\ cur.op = "initialize"
           /\ pc = "init_fts_create"
           /\ pc' = "idle"
           /\ ret'.status # "interrupted") =>
              (ret' = OkUnit /\ schema' = Structures)
      ]_vars

\* C19 witness: initialize has succeeded on a store that holds a note with
\* its tag row and index entry, a todo and a template.
C19_Witness ==
    /\ Completed("initialize")
    /\ schema = Structures
    /\ DOMAIN notes # {}
    /\ DOMAIN fts # {}
    /\ tags # <<>>
    /\ DOMAIN todos # {}
    /\ templates # {}

\* C20: when neither of two invocations that ran concurrently is still
\* running, the index has an entry for exactly the existing notes and each
\* entry is its note's content.
C20_ConcurrentIndexMirrors ==
    (pc = "idle" /\ other.pc = "idle") =>
        /\ DOMAIN fts = DOMAIN notes
        /\ \A n \in DOMAIN notes : fts[n] = notes[n].content

C22_ListNoDuplicates ==
    [][CallStep("note_list") =>
        LET r == ret'.rows IN
        /\ \A i, j \in DOMAIN r : i # j => r[i].id # r[j].id
        /\ \A k \in DOMAIN r :
               /\ Len(r[k].tags) = Cardinality(TagRowsOf(r[k].id))
               /\ r[k].tags = get_tags_for_note(r[k].id)
      ]_vars

\* C22 witness: a list by tag has returned, once, a note that carries the tag
\* on two rows.
C22_Witness ==
    /\ Completed("note_list")
    /\ cur.tag # None
    /\ cur.limit > 1
    /\ \E k \in DOMAIN ret.rows :
           /\ ret.rows[k].tags = <<cur.tag[1], cur.tag[1]>>
           /\ \A j \in DOMAIN ret.rows : j # k => ret.rows[j].id # ret.rows[k].id

\* C23: a search by tag returns no note twice, and the notes it returns are
\* those that list returns for the same tag with a limit that leaves none out.
C23_SearchByTagAsList ==
    [][(CallStep("search_notes") /\ cur'.tag # None) =>
        LET r == ret'.rows
            all == Cardinality(DOMAIN notes)
        IN  /\ \A i, j \in DOMAIN r : i # j => r[i].id # r[j].id
            /\ \A l \in list(all, cur'.tag, None, FALSE) :
                   {r[k].id : k \in DOMAIN r} = {l[k].id : k \in DOMAIN l}
      ]_vars

\* the part of C23 that does hold: the two return the same set of notes
C23_SameSetAsList ==
    [][(CallStep("search_notes") /\ cur'.tag # None) =>
        LET r == ret'.rows
        IN  \A l \in list(Cardinality(DOMAIN notes), cur'.tag, None, FALSE) :
               {r[k].id : k \in DOMAIN r} = {l[k].id : k \in DOMAIN l}
      ]_vars

\* C24: a search with no tag and no terms returns the empty result, whatever
\* the store holds and whatever case_sensitive is.
C24_NoTermsNoResult ==
    [][(CallStep("search_notes") /\ cur'.tag = None /\ cur'.terms = <<>>) =>
           ret' = OkRows(<<>>)
      ]_vars

\* C24 witness: a case-sensitive search with no tag and no terms has returned
\* on a store of two notes.
C24_Witness ==
    /\ Completed("search_notes")
    /\ cur.tag = None
    /\ cur.terms = <<>>
    /\ cur.flag
    /\ ret.rows = <<>>
    /\ Cardinality(DOMAIN notes) = 2

C25_HasLiteral(content, term) ==
    \E k \in 1..(Len(content) - Len(term) + 1) :
        \A j \in 1..Len(term) : content[k + j - 1] = term[j]

\* C25: what a case-sensitive search returns is a result of the same search
\* without case_sensitive, in the same order, less the notes whose content
\* does not contain every term letter for letter.
C25_CaseSensitivePostFilter ==
    [][(CallStep("search_notes") /\ cur'.tag = None /\ cur'.flag) =>
        \E r0 \in search(cur'.terms, None, FALSE) :
            ret'.rows = SelectSeq(r0, LAMBDA note :
                            \A k \in DOMAIN cur'.terms :
                                C25_HasLiteral(note.content, cur'.terms[k]))
      ]_vars

\* C25 witness: a case-sensitive search for "a" has returned one note, and
\* another note, "A b", matches the term but for the case.
C25_Witness ==
    /\ Completed("search_notes")
    /\ cur.tag = None
    /\ cur.flag
    /\ cur.terms = <<<<"a">>>>
    /\ Len(ret.rows) = 1
    /\ \E n \in DOMAIN notes : notes[n].content = <<"A", " ", "b">>

C27_CountStats ==
    [][/\ CallStep("count_stats") =>
            LET r == ret'.rows IN
            /\ ret'.status = "ok"
            /\ r[1] = Cardinality(DOMAIN todos)
            /\ r[2] = Cardinality({t \in DOMAIN todos : todos[t].completed})
            /\ r[3] = Cardinality({t \in DOMAIN todos : ~todos[t].completed})
            /\ r[1] = r[2] + r[3]
            /\ r[1] >= 0 /\ r[2] >= 0 /\ r[3] >= 0
       /\ (CallStep("todo_mark_done") /\ cur'.id \in DOMAIN todos) =>
            /\ ret' = OkBool(TRUE)
            /\ todos'[cur'.id].completed
       /\ \A t \in DOMAIN todos \cap DOMAIN todos' :
            todos[t].completed => todos'[t].completed
      ]_vars

\* C27 witness: count_stats has counted two todos, one completed and one
\* incomplete, the completed one added after the clock moved.
C27_Witness ==
    /\ Completed("count_stats")
    /\ ret.rows = <<2, 1, 1>>
    /\ \E t \in DOMAIN todos : todos[t].completed /\ todos[t].created_at > 0

\* the incomplete todos due before the instant t, and those due on day d
C28_Overdue(t) ==
    {k \in DOMAIN todos :
        /\ ~todos[k].completed
        /\ todos[k].due_date # None
        /\ todos[k].due_date[1] < t}
C28_DueOn(d) ==
    {k \in DOMAIN todos :
        /\ ~todos[k].completed
        /\ todos[k].due_date # None
        /\ d * DayLen <= todos[k].due_date[1]
        /\ todos[k].due_date[1] <= d * DayLen + (DayLen - 1)}
\* the incomplete todos that add stored on the day d with the date of that day
C28_AddedFor(d) ==
    {k \in DOMAIN todos :
        /\ ~todos[k].completed
        /\ todos[k].created_at \div DayLen = d
        /\ todos[k].due_date = Some(d * DayLen + (DayLen - 1))}

C29_Permutations(pairs) ==
    {[k \in DOMAIN pairs |-> pairs[f[k]]] :
        f \in {g \in [DOMAIN pairs -> DOMAIN pairs] :
                  \A i, j \in DOMAIN pairs : i # j => g[i] # g[j]}}

\* C29: for pairs with distinct keys, render gives the same output for the
\* pairs in any order.
C29_RenderAnyOrder ==
    [][(/\ CallStep("render")
        /\ \A i, j \in DOMAIN cur'.terms :
               i # j => cur'.terms[i][1] # cur'.terms[j][1]) =>
          \A q \in C29_Permutations(cur'.terms) :
              render(cur'.content, q) = ret'.rows
      ]_vars

\* C30: when the editor of an edit, daily, new or template edit command ends
\* with a failure, the command exits in error, and neither that step nor the
\* command's steps before the editor change a note, a tag row, an index entry,
\* a todo or a template.
C30_EditorFailureDiscards ==
    [][/\ (/\ pc = "editor"
           /\ cur.cmd \in {"cmd_edit", "cmd_daily", "cmd_new", "cmd_template"}
           /\ \E text \in TypedTexts : edit_with_editor(FALSE, text)) =>
              /\ UNCHANGED db
              /\ pc' = "idle"
              /\ ret'.status = "exit"
       /\ (pc = "idle" /\ pc' = "editor") => UNCHANGED db
      ]_vars

\* C30 witness: the editor of a template edit command has failed; the
\* template holds what an earlier edit saved, and a note is stored.
C30_Witness ==
    /\ pc = "idle"
    /\ ret.status = "exit"
    /\ cur.op = "edit_with_editor"
    /\ cur.cmd = "cmd_template"
    /\ get(<<"n">>) = Some(Template(<<"n">>, <<"b">>))
    /\ DOMAIN notes # {}

====
